---- MODULE Spec2Model ----
(***************************************************************************)
(* Model of bambooai/qa_retrieval.py: PineconeWrapper, the semantic cache  *)
(* of question -> plan/code records kept in a vector index.                *)
(*                                                                         *)
(* Each caller (process) executes retrieve_matching_record or add_record   *)
(* as the sequence of collaborator calls the code makes: the embedder      *)
(* (vectorize_question), index.query, index.fetch and index.upsert.  The   *)
(* code between two collaborator calls is local to the caller and is part  *)
(* of the step that ends in the next collaborator call.                    *)
(*                                                                         *)
(* Similarity scores and thresholds are in tenths (10 is cosine 1.0).      *)
(***************************************************************************)
EXTENDS Integers, FiniteSets, Sequences, TLC

\* ---------------------------------------------------------------- bounds
MaxRank == 9
MaxCalls == 3

\* ------------------------------------------------------ program constants
MinRank == 8
DefaultRank == -1

\* ----------------------------------------------------------- input domains
Procs == {1, 2}
SeqProcs == {1}
Questions == {"q1", "q2"}
Schemas == {<<"a", "b">>, <<"b", "a">>}
Payloads == {[plan |-> "plan1", code |-> "code1"],
             [plan |-> "plan2", code |-> "code2"]}
Ranks == (MinRank - 1)..MaxRank
Thresholds == {9, 10}
ConcQuestions == {"q1", "q2"}
ConcSchemas == {<<"a", "b">>}
ConcPayloads == {[plan |-> "plan1", code |-> "code1"]}
ConcThresholds == {9}

\* hashlib.sha256(question.encode()).hexdigest(): a function of the question
\* text alone, distinct texts giving distinct digests.
Sha256(question) ==
    CASE question = "q1" -> "h1"
      [] question = "q2" -> "h2"

Ids == {Sha256(q) : q \in Questions}

\* embedding_client.vectorize(question): the configured backend maps a text
\* to a fixed vector.
Vectorize(question) ==
    CASE question = "q1" -> "v1"
      [] question = "q2" -> "v2"

\* metric="cosine": a vector scores 10 (1.0) against itself; the two
\* questions are near duplicates scoring 9 (0.9) against each other.
Cosine(u, v) == IF u = v THEN 10 ELSE 9

\* ----------------------------------------------------------------- values
NoMeta == [plan |-> "None", df_col |-> <<>>, question_txt |-> "None",
           code |-> "None", rank |-> DefaultRank]
None == [id |-> "None", values |-> "None", metadata |-> NoMeta]
NoMatch == [id |-> "None", score |-> -1]
NoArgs == [op |-> "None", question |-> "None", plan |-> "None",
           df_columns |-> <<>>, code |-> "None", new_rank |-> DefaultRank,
           similarity_threshold |-> -1, match_df |-> FALSE]

VARIABLES index, pc, args, id, vectorised_question, match, vector_data,
          vector_rank, upserts, ret, ncalls, enabled, log, fetched, error,
          written, missed

vars == <<index, pc, args, id, vectorised_question, match, vector_data,
          vector_rank, upserts, ret, ncalls, enabled, log, fetched, error,
          written, missed>>

locals == <<id, vectorised_question, match, vector_data, vector_rank>>

\* The index is empty after construction; no caller has started.  __init__
\* returns before it sets embedding_client and index when PINECONE_API_KEY is
\* not set (enabled = FALSE).  log is the sequence of collaborator calls the
\* current call has made, fetched the answer of its index.fetch, error the
\* exception that ended it, written the record of the latest upsert, missed
\* whether the index ever failed to return a vector its query had matched.
Init ==
    /\ missed = FALSE
    /\ written = None
    /\ enabled \in BOOLEAN
    /\ log = [p \in Procs |-> <<>>]
    /\ fetched = [p \in Procs |-> None]
    /\ error = [p \in Procs |-> "None"]
    /\ index = [i \in Ids |-> None]
    /\ pc = [p \in Procs |-> "idle"]
    /\ args = [p \in Procs |-> NoArgs]
    /\ id = [p \in Procs |-> "None"]
    /\ vectorised_question = [p \in Procs |-> "None"]
    /\ match = [p \in Procs |-> NoMatch]
    /\ vector_data = [p \in Procs |-> None]
    /\ vector_rank = [p \in Procs |-> DefaultRank]
    /\ upserts = [p \in Procs |-> 0]
    /\ ret = [p \in Procs |-> None]
    /\ ncalls = 0

Stored == {i \in Ids : index[i] # None}

Free(p) == pc[p] = "idle"

\* ------------------------------------------------------ index collaborator
\* index.query(vector, top_k=1): the stored records of highest cosine score
\* against the query vector; any one of them may come first on a tie.
TopMatches(vector) ==
    {i \in Stored :
        \A j \in Stored :
            Cosine(vector, index[j].values) <= Cosine(vector, index[i].values)}

\* add_record's rank floor: "if new_rank < 8".
BelowFloorLoose(new_rank) == new_rank < MinRank - 1

BelowFloor(new_rank) == new_rank < MinRank

\* check_similarity: False exactly when the score is below the threshold.
check_similarity_always(m, similarity_threshold) == TRUE

check_similarity_strict(m, similarity_threshold) ==
    ~(m.score <= similarity_threshold)

check_similarity(m, similarity_threshold) ==
    ~(m.score < similarity_threshold)

\* index.fetch(ids=[id]) followed by the "if not vector_data" test.
fetch_record(i) == index[i]

\* The schema gate of retrieve_matching_record applied to a fetched record:
\* df_col and df_columns are compared with ==, as ordered lists.
Columns(df) == {df[k] : k \in 1..Len(df)}

SchemaGateAlways(vd, df_columns, match_df) ==
    IF vd.metadata.df_col = df_columns THEN vd ELSE None

SchemaGateUnordered(vd, df_columns, match_df) ==
    IF match_df
    THEN IF Columns(vd.metadata.df_col) = Columns(df_columns)
         THEN vd ELSE None
    ELSE vd

SchemaGate(vd, df_columns, match_df) ==
    IF match_df
    THEN IF vd.metadata.df_col = df_columns THEN vd ELSE None
    ELSE vd

\* The metadata add_record builds for its upsert.
NewMetadata(a) ==
    [plan |-> a.plan, df_col |-> a.df_columns, question_txt |-> a.question,
     code |-> a.code, rank |-> a.new_rank]

\* add_record's comparison of the existing rank with the new rank.
ShouldUpsertOnTie(existing_rank, new_rank) == existing_rank <= new_rank

ShouldUpsert(existing_rank, new_rank) == existing_rank < new_rank

\* ---------------------------------------------------------------- actions
\* A caller starts retrieve_matching_record(question, df_columns,
\* similarity_threshold, match_df); the first thing it does is query_index's
\* call of the embedder.
CallLookup(p, question, df_columns, similarity_threshold, match_df) ==
    /\ Free(p)
    /\ args' = [args EXCEPT ![p] =
                   [op |-> "retrieve_matching_record", question |-> question,
                    plan |-> "None", df_columns |-> df_columns,
                    code |-> "None", new_rank |-> DefaultRank,
                    similarity_threshold |-> similarity_threshold,
                    match_df |-> match_df]]
    /\ pc' = [pc EXCEPT ![p] = "query_vectorize"]
    /\ id' = [id EXCEPT ![p] = "None"]
    /\ vectorised_question' = [vectorised_question EXCEPT ![p] = "None"]
    /\ match' = [match EXCEPT ![p] = NoMatch]
    /\ vector_data' = [vector_data EXCEPT ![p] = None]
    /\ vector_rank' = [vector_rank EXCEPT ![p] = DefaultRank]
    /\ upserts' = [upserts EXCEPT ![p] = 0]
    /\ ret' = [ret EXCEPT ![p] = None]
    /\ log' = [log EXCEPT ![p] = <<>>]
    /\ fetched' = [fetched EXCEPT ![p] = None]
    /\ error' = [error EXCEPT ![p] = "None"]
    /\ UNCHANGED <<index, enabled, written, missed>>

\* A caller starts add_record(question, plan, df_columns, code, new_rank,
\* similarity_threshold): the rank floor, then the content-hash id, then the
\* call of the embedder.
CallRecord(p, question, plan, df_columns, code, new_rank, similarity_threshold) ==
    /\ Free(p)
    /\ args' = [args EXCEPT ![p] =
                   [op |-> "add_record", question |-> question,
                    plan |-> plan, df_columns |-> df_columns,
                    code |-> code, new_rank |-> new_rank,
                    similarity_threshold |-> similarity_threshold,
                    match_df |-> TRUE]]
    /\ IF BelowFloor(new_rank)
       THEN /\ pc' = [pc EXCEPT ![p] = "returned"]
            /\ id' = [id EXCEPT ![p] = "None"]
       ELSE /\ pc' = [pc EXCEPT ![p] = "vectorize"]
            /\ id' = [id EXCEPT ![p] = Sha256(question)]
    /\ vectorised_question' = [vectorised_question EXCEPT ![p] = "None"]
    /\ match' = [match EXCEPT ![p] = NoMatch]
    /\ vector_data' = [vector_data EXCEPT ![p] = None]
    /\ vector_rank' = [vector_rank EXCEPT ![p] = DefaultRank]
    /\ upserts' = [upserts EXCEPT ![p] = 0]
    /\ ret' = [ret EXCEPT ![p] = None]
    /\ log' = [log EXCEPT ![p] = <<>>]
    /\ fetched' = [fetched EXCEPT ![p] = None]
    /\ error' = [error EXCEPT ![p] = "None"]
    /\ UNCHANGED <<index, enabled, written, missed>>

\* The embedder answers: add_record's own vectorize_question call, or the
\* one at the head of query_index.
EmbedderOk(p) ==
    /\ enabled
    /\ pc[p] \in {"vectorize", "query_vectorize"}
    /\ log' = [log EXCEPT ![p] = Append(log[p], "vectorize")]
    /\ vectorised_question' =
           [vectorised_question EXCEPT ![p] = Vectorize(args[p].question)]
    /\ pc' = [pc EXCEPT ![p] =
                 IF pc[p] = "vectorize" THEN "query_vectorize" ELSE "query"]
    /\ UNCHANGED <<index, args, id, match, vector_data, vector_rank,
                   upserts, ret, ncalls, enabled, fetched, error, written, missed>>

\* The embedder fails: vectorize raises, and neither vectorize_question,
\* query_index, retrieve_matching_record nor add_record catches it.
EmbedderFail(p) ==
    /\ enabled
    /\ pc[p] \in {"vectorize", "query_vectorize"}
    /\ log' = [log EXCEPT ![p] = Append(log[p], "vectorize")]
    /\ pc' = [pc EXCEPT ![p] = "raised"]
    /\ error' = [error EXCEPT ![p] = "EmbeddingUnavailable"]
    /\ UNCHANGED <<index, args, id, vectorised_question, match, vector_data,
                   vector_rank, upserts, ret, ncalls, enabled, fetched,
                   written, missed>>

\* The wrapper was constructed without PINECONE_API_KEY: self has no
\* embedding_client, so vectorize_question raises AttributeError before any
\* collaborator is called, and nothing catches it.
NoClient(p) ==
    /\ ~enabled
    /\ pc[p] \in {"vectorize", "query_vectorize"}
    /\ pc' = [pc EXCEPT ![p] = "raised"]
    /\ error' = [error EXCEPT ![p] = "AttributeError"]
    /\ UNCHANGED <<index, args, id, vectorised_question, match, vector_data,
                   vector_rank, upserts, ret, ncalls, enabled, log, fetched,
                   written, missed>>

\* add_record's baseline: the found record's rank and id, or the default
\* rank and the question's own id when the lookup step found nothing.
ExistingRankFloorDefault(vd) ==
    IF vd # None THEN vd.metadata.rank ELSE MinRank

ExistingRank(vd) ==
    IF vd # None THEN vd.metadata.rank ELSE DefaultRank

TargetIdOwn(vd, own) == own

TargetId(vd, own) ==
    IF vd # None THEN vd.id ELSE own

\* retrieve_matching_record hands vd (a record or None) back.  A lookup
\* returns it; add_record goes on to adopt the found id and rank and to
\* compare ranks.
RetrieveReturns(p, vd) ==
    /\ vector_data' = [vector_data EXCEPT ![p] = vd]
    /\ IF args[p].op = "retrieve_matching_record"
       THEN /\ pc' = [pc EXCEPT ![p] = "returned"]
            /\ ret' = [ret EXCEPT ![p] = vd]
            /\ UNCHANGED <<id, vector_rank>>
       ELSE LET rank == ExistingRank(vd)
                rid == TargetId(vd, id[p])
            IN  /\ vector_rank' = [vector_rank EXCEPT ![p] = rank]
                /\ id' = [id EXCEPT ![p] = rid]
                /\ pc' = [pc EXCEPT ![p] =
                             IF ShouldUpsert(rank, args[p].new_rank)
                             THEN "upsert" ELSE "returned"]
                /\ UNCHANGED ret

\* index.query answers, then the similarity gate.
Query(p) ==
    /\ pc[p] = "query"
    /\ IF Stored = {}
       THEN /\ match' = [match EXCEPT ![p] = NoMatch]
            /\ RetrieveReturns(p, None)
       ELSE \E i \in TopMatches(vectorised_question[p]) :
              LET m == [id |-> i,
                        score |-> Cosine(vectorised_question[p],
                                         index[i].values)]
              IN  /\ match' = [match EXCEPT ![p] = m]
                  /\ IF check_similarity(m, args[p].similarity_threshold)
                     THEN /\ pc' = [pc EXCEPT ![p] = "fetch"]
                          /\ UNCHANGED <<id, vector_data, vector_rank, ret>>
                     ELSE RetrieveReturns(p, None)
    /\ log' = [log EXCEPT ![p] = Append(log[p], "query")]
    /\ UNCHANGED <<index, args, vectorised_question, upserts, ncalls,
                   enabled, fetched, error, written, missed>>

\* index.fetch answers with the record stored under the matched id, then
\* the schema gate.
Fetch(p) ==
    /\ pc[p] = "fetch"
    /\ LET data == fetch_record(match[p].id)
       IN  /\ fetched' = [fetched EXCEPT ![p] = data]
           /\ IF data = None
              THEN RetrieveReturns(p, None)
              ELSE RetrieveReturns(p, SchemaGate(data, args[p].df_columns,
                                                 args[p].match_df))
    /\ log' = [log EXCEPT ![p] = Append(log[p], "fetch")]
    /\ UNCHANGED <<index, args, vectorised_question, match, upserts, ncalls,
                   enabled, error, written, missed>>

\* index.fetch answers without the vector the query just matched (the index
\* is not consistent between query and fetch): fetch_record's
\* "if not vector_data" returns None and so does retrieve_matching_record.
FetchNotFoundRaises(p) ==
    /\ pc[p] = "fetch"
    /\ pc' = [pc EXCEPT ![p] = "raised"]
    /\ error' = [error EXCEPT ![p] = "KeyError"]
    /\ log' = [log EXCEPT ![p] = Append(log[p], "fetch")]
    /\ UNCHANGED <<index, args, id, vectorised_question, match, vector_data,
                   vector_rank, upserts, ret, ncalls, enabled, fetched,
                   written, missed>>

FetchNotFound(p) ==
    /\ pc[p] = "fetch"
    /\ RetrieveReturns(p, None)
    /\ log' = [log EXCEPT ![p] = Append(log[p], "fetch")]
    /\ missed' = TRUE
    /\ UNCHANGED <<index, args, vectorised_question, match, upserts, ncalls,
                   enabled, fetched, error, written>>

\* index.upsert(vectors=[(id, vectorised_question, metadata)]).
UpsertReplaceAll(p) ==
    /\ pc[p] = "upsert"
    /\ written' = [id |-> id[p], values |-> vectorised_question[p],
                   metadata |-> NewMetadata(args[p])]
    /\ index' = [i \in Ids |-> IF i = id[p] THEN written' ELSE None]
    /\ upserts' = [upserts EXCEPT ![p] = upserts[p] + 1]
    /\ log' = [log EXCEPT ![p] = Append(log[p], "upsert")]
    /\ pc' = [pc EXCEPT ![p] = "returned"]
    /\ UNCHANGED <<args, id, vectorised_question, match, vector_data,
                   vector_rank, ret, ncalls, enabled, fetched, error,
                   missed>>

UpsertIfRankUnchanged(p) ==
    /\ pc[p] = "upsert"
    /\ written' = [id |-> id[p], values |-> vectorised_question[p],
                   metadata |-> NewMetadata(args[p])]
    /\ index' = IF index[id[p]].metadata.rank = vector_rank[p]
                THEN [index EXCEPT ![id[p]] =
                         [id |-> id[p], values |-> vectorised_question[p],
                          metadata |-> NewMetadata(args[p])]]
                ELSE index
    /\ upserts' = [upserts EXCEPT ![p] = upserts[p] + 1]
    /\ log' = [log EXCEPT ![p] = Append(log[p], "upsert")]
    /\ pc' = [pc EXCEPT ![p] = "returned"]
    /\ UNCHANGED <<args, id, vectorised_question, match, vector_data,
                   vector_rank, ret, ncalls, enabled, fetched, error,
                   missed>>

Upsert(p) ==
    /\ pc[p] = "upsert"
    /\ written' = [id |-> id[p], values |-> vectorised_question[p],
                   metadata |-> NewMetadata(args[p])]
    /\ index' = [index EXCEPT ![id[p]] =
                    [id |-> id[p], values |-> vectorised_question[p],
                     metadata |-> NewMetadata(args[p])]]
    /\ upserts' = [upserts EXCEPT ![p] = upserts[p] + 1]
    /\ log' = [log EXCEPT ![p] = Append(log[p], "upsert")]
    /\ pc' = [pc EXCEPT ![p] = "returned"]
    /\ UNCHANGED <<args, id, vectorised_question, match, vector_data,
                   vector_rank, ret, ncalls, enabled, fetched, error,
                   missed>>

\* The call is over (a value was returned or the exception left the method):
\* the caller's frame is gone and the caller may call again.
Return(p) ==
    /\ pc[p] \in {"returned", "raised"}
    /\ pc' = [pc EXCEPT ![p] = "idle"]
    /\ args' = [args EXCEPT ![p] = NoArgs]
    /\ id' = [id EXCEPT ![p] = "None"]
    /\ vectorised_question' = [vectorised_question EXCEPT ![p] = "None"]
    /\ match' = [match EXCEPT ![p] = NoMatch]
    /\ vector_data' = [vector_data EXCEPT ![p] = None]
    /\ vector_rank' = [vector_rank EXCEPT ![p] = DefaultRank]
    /\ upserts' = [upserts EXCEPT ![p] = 0]
    /\ ret' = [ret EXCEPT ![p] = None]
    /\ log' = [log EXCEPT ![p] = <<>>]
    /\ fetched' = [fetched EXCEPT ![p] = None]
    /\ error' = [error EXCEPT ![p] = "None"]
    /\ UNCHANGED <<index, ncalls, enabled, written, missed>>

\* ---------------------------------------------------------- specifications
\* One caller: calls execute one at a time.
Next ==
    \E p \in SeqProcs :
       \/ \E q \in Questions, s \in Schemas, t \in Thresholds,
             m \in BOOLEAN :
             CallLookup(p, q, s, t, m) /\ UNCHANGED ncalls
       \/ \E q \in Questions, a \in Payloads, s \in Schemas, r \in Ranks,
             t \in Thresholds :
             CallRecord(p, q, a.plan, s, a.code, r, t) /\ UNCHANGED ncalls
       \/ EmbedderOk(p)
       \/ EmbedderFail(p)
       \/ NoClient(p)
       \/ Query(p)
       \/ Fetch(p)
       \/ FetchNotFound(p)
       \/ Upsert(p)
       \/ Return(p)

Spec == Init /\ [][Next]_vars

\* Two callers whose collaborator calls interleave, MaxCalls calls in all.
NextConc ==
    \E p \in Procs :
       \/ /\ ncalls < MaxCalls
          /\ ncalls' = ncalls + 1
          /\ \E q \in ConcQuestions, s \in ConcSchemas, t \in ConcThresholds,
                m \in BOOLEAN :
                CallLookup(p, q, s, t, m)
       \/ /\ ncalls < MaxCalls
          /\ ncalls' = ncalls + 1
          /\ \E q \in ConcQuestions, a \in ConcPayloads, s \in ConcSchemas,
                r \in Ranks, t \in ConcThresholds :
                CallRecord(p, q, a.plan, s, a.code, r, t)
       \/ EmbedderOk(p)
       \/ EmbedderFail(p)
       \/ NoClient(p)
       \/ Query(p)
       \/ Fetch(p)
       \/ FetchNotFound(p)
       \/ Upsert(p)
       \/ Return(p)

SpecConc == Init /\ [][NextConc]_vars

TypeOK ==
    /\ \A i \in Ids : index[i] = None \/ index[i].id = i
    /\ \A p \in Procs :
         pc[p] \in {"idle", "vectorize", "query_vectorize", "query", "fetch",
                    "upsert", "returned", "raised"}
    /\ ncalls \in 0..MaxCalls

\* ================================================================ claims
IsRecordCall(p) == args[p].op = "add_record"
IsLookupCall(p) == args[p].op = "retrieve_matching_record"

\* C1: the rank stored under an id never decreases, and a stored record's
\* metadata changes only in a step that stores a strictly greater rank under
\* that id.
Called(p, c) == \E k \in 1..Len(log[p]) : log[p][k] = c

FetchMissed(p) == Called(p, "fetch") /\ fetched[p] = None

C1_RankNeverDecreases ==
    [][\A i \in Ids :
          (index[i] # None /\ \A p \in Procs : ~FetchMissed(p)) =>
             /\ index'[i] # None
             /\ index'[i].metadata.rank >= index[i].metadata.rank
             /\ index'[i].metadata # index[i].metadata =>
                   index'[i].metadata.rank > index[i].metadata.rank]_vars

\* C2: an add_record call whose rank is below 8 returns at once, issues no
\* upsert, and the step that makes the call leaves the index as it was.
C2_QualityFloorNoOp ==
    /\ [](\A p \in Procs :
            (IsRecordCall(p) /\ args[p].new_rank < MinRank) =>
               /\ pc[p] = "returned"
               /\ upserts[p] = 0
               /\ vectorised_question[p] = "None")
    /\ [][\A p \in Procs :
            (IsRecordCall(p)' /\ args'[p].new_rank < MinRank) =>
               index' = index]_vars

C2_Witness ==
    \E p \in Procs :
       /\ IsRecordCall(p)
       /\ args[p].new_rank < MinRank
       /\ pc[p] = "returned"
       /\ Cardinality(Stored) = 2

\* C3: whatever the interleaving of the callers' lookup and record calls,
\* every stored record has rank >= 8.
C3_StoredRankAtLeastFloor ==
    \A i \in Stored : index[i].metadata.rank >= MinRank

C3_Witness ==
    /\ Cardinality(Stored) = 2
    /\ \A p \in Procs : IsRecordCall(p) /\ upserts[p] = 1
    /\ \E i \in Stored : index[i].metadata.rank = MinRank

\* C4: once add_record's lookup step has found a record of rank R, a new
\* rank <= R (a tie included) issues no upsert, and a new rank > R issues
\* one upsert after which the record under the found id has exactly the
\* call's plan, schema, question text, code and rank; the index changes in
\* no step but an upsert.
Found(p) == IsRecordCall(p) /\ vector_data[p] # None

C4_ReplaceOnlyOnGreaterRank ==
    /\ [](\A p \in SeqProcs :
            (Found(p) /\ pc[p] \in {"upsert", "returned"}) =>
               /\ vector_rank[p] = vector_data[p].metadata.rank
               /\ id[p] = vector_data[p].id
               /\ args[p].new_rank <= vector_rank[p] =>
                     (pc[p] = "returned" /\ upserts[p] = 0)
               /\ (args[p].new_rank > vector_rank[p] /\ pc[p] = "upsert") =>
                     upserts[p] = 0
               /\ (args[p].new_rank > vector_rank[p] /\ pc[p] = "returned") =>
                     /\ upserts[p] = 1
                     /\ index[id[p]].id = id[p]
                     /\ index[id[p]].metadata = NewMetadata(args[p]))
    /\ [][index' # index =>
             \E p \in SeqProcs :
                pc[p] = "upsert" /\ upserts'[p] = upserts[p] + 1]_vars

C4_Witness ==
    \E p \in SeqProcs :
       /\ Found(p)
       /\ pc[p] = "returned"
       /\ args[p].new_rank = vector_rank[p]
       /\ index[id[p]].metadata # NewMetadata(args[p])

\* C5: an upsert is unconditional: whenever a caller's upsert executes, the
\* record under its id becomes that caller's record, whatever is stored
\* there at that moment; so of two callers that read the same existing rank
\* the later writer wins, even with the lower new rank.
C5_LastWriteWins ==
    [][\A p \in Procs :
          (pc[p] = "upsert" /\ pc'[p] = "returned") =>
             index'[id[p]].metadata = NewMetadata(args[p])]_vars

C5_Witness ==
    /\ \A p \in Procs : IsRecordCall(p) /\ pc[p] = "returned" /\ upserts[p] = 1
    /\ id[1] = id[2]
    /\ vector_rank[1] = vector_rank[2]
    /\ args[1].new_rank > args[2].new_rank
    /\ index[id[1]].metadata.rank = args[2].new_rank

\* C6: when add_record(question, schema, rank >= 8) upserts into an index
\* that holds the question text under another schema only, its lookup found
\* nothing, the existing rank is -1, it writes under the question's own
\* content-hash id, every earlier record is still there and the index then
\* holds the question text under both schemas.
HoldsText(idx, question, df_columns) ==
    \E i \in Ids :
       /\ idx[i] # None
       /\ idx[i].metadata.question_txt = question
       /\ idx[i].metadata.df_col = df_columns

C6_TwoRecordsPerQuestion ==
    [][\A p \in Procs :
          (/\ pc[p] = "upsert"
           /\ pc'[p] = "returned"
           /\ ~FetchMissed(p)
           /\ ~HoldsText(index, args[p].question, args[p].df_columns)
           /\ \E s \in Schemas : HoldsText(index, args[p].question, s)) =>
             /\ vector_data[p] = None
             /\ vector_rank[p] = DefaultRank
             /\ id[p] = Sha256(args[p].question)
             /\ \A i \in Stored : index'[i] = index[i]
             /\ \A s \in Schemas :
                   HoldsText(index, args[p].question, s) =>
                      HoldsText(index', args[p].question, s)
             /\ HoldsText(index', args[p].question, args[p].df_columns)]_vars

\* C7: with match_df true, the lookup step never hands back a record whose
\* stored df_col differs from the caller's df_columns.
C7_SchemaGate ==
    \A p \in Procs :
       /\ (IsLookupCall(p) /\ args[p].match_df /\ pc[p] = "returned"
           /\ ret[p] # None) =>
             ret[p].metadata.df_col = args[p].df_columns
       /\ (args[p].match_df /\ vector_data[p] # None) =>
             vector_data[p].metadata.df_col = args[p].df_columns

C7_Witness ==
    \E p \in Procs :
       /\ IsLookupCall(p)
       /\ args[p].match_df
       /\ pc[p] = "returned"
       /\ ret[p] = None
       /\ match[p] # NoMatch
       /\ match[p].score = 10
       /\ index[match[p].id].metadata.df_col # args[p].df_columns

\* C8: the step that receives the query's top match goes on to fetch exactly
\* when the score is not below the threshold; below the threshold the lookup
\* step yields none (and a lookup call returns none).
C8_SimilarityGate ==
    [][\A p \in Procs :
          (pc[p] = "query" /\ pc'[p] # "query" /\ match'[p] # NoMatch) =>
             /\ pc'[p] = "fetch" <=>
                   match'[p].score >= args[p].similarity_threshold
             /\ match'[p].score < args[p].similarity_threshold =>
                   /\ vector_data'[p] = None
                   /\ IsLookupCall(p) => (pc'[p] = "returned" /\ ret'[p] = None)]_vars

C8_Witness ==
    \E p \in Procs :
       /\ pc[p] = "fetch"
       /\ match[p].score = args[p].similarity_threshold
       /\ match[p].score < 10

\* C9: a lookup call in which the embedder failed does not end by raising
\* (it returns none).
EmbedderFailed(p) == error[p] = "EmbeddingUnavailable"

C9_LookupNeverRaises ==
    \A p \in Procs :
       (IsLookupCall(p) /\ EmbedderFailed(p)) =>
          (pc[p] # "raised" /\ ret[p] = None)

\* C10: an add_record call in which the embedder failed does not end by
\* raising.
C10_RecordNeverRaises ==
    \A p \in Procs :
       (IsRecordCall(p) /\ EmbedderFailed(p)) => pc[p] # "raised"

\* C11: a lookup that returns, made with the question and schema of the
\* latest upsert, match_df true and a threshold not above 1.0, returns the
\* record that upsert wrote (the index having answered every fetch).
C11_RoundTrip ==
    \A p \in SeqProcs :
       (/\ IsLookupCall(p)
        /\ pc[p] = "returned"
        /\ args[p].match_df
        /\ args[p].similarity_threshold <= 10
        /\ ~missed
        /\ written # None
        /\ args[p].question = written.metadata.question_txt
        /\ args[p].df_columns = written.metadata.df_col) =>
          ret[p] = written

\* C12: when add_record's lookup step found nothing, the id it writes under
\* is the hash of its question text, the existing rank is -1, and the call
\* (its rank being >= 8) ends with one upsert that stores its record under
\* that id.
C12_OwnIdWhenNotFound ==
    \A p \in SeqProcs :
       (/\ IsRecordCall(p)
        /\ Called(p, "query")
        /\ pc[p] \in {"upsert", "returned"}
        /\ vector_data[p] = None) =>
          /\ args[p].new_rank >= MinRank
          /\ id[p] = Sha256(args[p].question)
          /\ vector_rank[p] = -1
          /\ pc[p] = "returned" =>
                /\ upserts[p] = 1
                /\ index[Sha256(args[p].question)].metadata =
                      NewMetadata(args[p])

C12_Witness ==
    \E p \in SeqProcs :
       /\ IsRecordCall(p)
       /\ pc[p] = "returned"
       /\ vector_data[p] = None
       /\ upserts[p] = 1
       /\ args[p].new_rank = MinRank
       /\ match[p] # NoMatch
       /\ Cardinality(Stored) = 2

\* C13: when add_record's lookup step found the record of a differently
\* worded question, the call adopts that record's id and rank, and its
\* upsert, if any, replaces the record under that id: the set of stored ids
\* is the same after it and the entry under the question's own hash id, when
\* that is another id, is untouched.
FoundOtherWording(p) ==
    Found(p) /\ vector_data[p].metadata.question_txt # args[p].question

C13_DedupByProximity ==
    /\ [](\A p \in SeqProcs :
            (FoundOtherWording(p) /\ pc[p] \in {"upsert", "returned"}) =>
               /\ id[p] = vector_data[p].id
               /\ vector_rank[p] = vector_data[p].metadata.rank
               /\ match[p].score >= args[p].similarity_threshold
               /\ vector_data[p].metadata.df_col = args[p].df_columns)
    /\ [][\A p \in SeqProcs :
            (FoundOtherWording(p) /\ pc[p] = "upsert"
             /\ pc'[p] = "returned") =>
               /\ Stored' = Stored
               /\ index'[id[p]].metadata = NewMetadata(args[p])
               /\ Sha256(args[p].question) # id[p] =>
                     index'[Sha256(args[p].question)] =
                        index[Sha256(args[p].question)]]_vars

C13_Witness ==
    \E p \in SeqProcs :
       /\ FoundOtherWording(p)
       /\ pc[p] = "returned"
       /\ upserts[p] = 1
       /\ index[Sha256(args[p].question)] = None
       /\ Cardinality(Stored) = 1

\* C14: a lookup with match_df false goes on to fetch exactly when the top
\* match's score is not below the threshold, returns whatever the fetch
\* yielded (the stored record, whatever its df_col, or none when the fetch
\* found nothing), and returns none when there was no match or the score
\* was below the threshold.
C14_NoSchemaGate ==
    [][\A p \in SeqProcs :
          (IsLookupCall(p) /\ ~args[p].match_df) =>
             /\ (pc[p] = "query" /\ pc'[p] = "returned") =>
                   /\ ret'[p] = None
                   /\ \/ match'[p] = NoMatch
                      \/ match'[p].score < args[p].similarity_threshold
             /\ (pc[p] = "query" /\ match'[p] # NoMatch
                 /\ match'[p].score >= args[p].similarity_threshold) =>
                   pc'[p] = "fetch"
             /\ (pc[p] = "fetch" /\ pc'[p] # "fetch") =>
                   /\ pc'[p] = "returned"
                   /\ ret'[p] = fetched'[p]
                   /\ fetched'[p] \in {None, index[match[p].id]}]_vars

C14_Witness ==
    \E p \in SeqProcs :
       /\ IsLookupCall(p)
       /\ ~args[p].match_df
       /\ pc[p] = "returned"
       /\ ret[p] # None
       /\ ret[p].metadata.df_col # args[p].df_columns

\* C15: when the fetch of a matched id (score >= threshold) finds nothing,
\* no exception ends the call; a lookup returns none, and add_record goes on
\* with existing rank -1 and the hash of its question as id.
C15_FetchNotFoundIsMiss ==
    \A p \in Procs :
       FetchMissed(p) =>
          /\ match[p].score >= args[p].similarity_threshold
          /\ pc[p] # "raised"
          /\ error[p] = "None"
          /\ vector_data[p] = None
          /\ IsLookupCall(p) => (pc[p] = "returned" /\ ret[p] = None)
          /\ IsRecordCall(p) =>
                /\ pc[p] \in {"upsert", "returned"}
                /\ vector_rank[p] = -1
                /\ id[p] = Sha256(args[p].question)

C15_Witness ==
    \E p \in Procs :
       /\ IsRecordCall(p)
       /\ FetchMissed(p)
       /\ pc[p] = "returned"
       /\ upserts[p] = 1
       /\ index[match[p].id] # None

\* C16: in a wrapper constructed without index credentials no call ends by
\* raising: a lookup returns none and add_record returns without writing.
C16_DisabledNoOp ==
    \A p \in Procs :
       ~enabled => (pc[p] # "raised" /\ upserts[p] = 0 /\ ret[p] = None)

\* C17: a lookup against an empty index does not end by raising, issues no
\* fetch and returns none.
C17_EmptyIndexMiss ==
    \A p \in SeqProcs :
       (IsLookupCall(p) /\ Stored = {}) =>
          /\ pc[p] # "raised"
          /\ ~Called(p, "fetch")
          /\ ret[p] = None

\* C18: the collaborator calls of one call are a prefix of vectorize, query,
\* fetch (a lookup) or of vectorize, vectorize, query, [fetch,] upsert
\* (add_record); a fetch is issued only for a match that passed the
\* similarity gate, and an upsert only once the lookup step is over.
IsPrefix(s, t) ==
    /\ Len(s) <= Len(t)
    /\ \A k \in 1..Len(s) : s[k] = t[k]

LookupCalls == <<"vectorize", "query", "fetch">>

RecordCalls ==
    {<<"vectorize", "vectorize", "query", "fetch", "upsert">>,
     <<"vectorize", "vectorize", "query", "upsert">>}

C18_CollaboratorCallOrder ==
    \A p \in Procs :
       /\ IsLookupCall(p) => IsPrefix(log[p], LookupCalls)
       /\ IsRecordCall(p) => \E t \in RecordCalls : IsPrefix(log[p], t)
       /\ Called(p, "fetch") =>
             /\ match[p] # NoMatch
             /\ match[p].score >= args[p].similarity_threshold
       /\ Called(p, "upsert") =>
             /\ pc[p] = "returned"
             /\ Called(p, "query")
             /\ upserts[p] = 1

C18_Witness ==
    \E p \in Procs :
       /\ log[p] = <<"vectorize", "vectorize", "query", "fetch", "upsert">>
       /\ pc[p] = "returned"

\* C19: no step of a lookup call changes the index; the index changes only
\* in the one upsert of an add_record call, which changes the entry under
\* its id and no other; no step removes an id from the index.
C19_LookupReadOnly ==
    /\ [](\A p \in Procs :
            /\ upserts[p] <= 1
            /\ IsLookupCall(p) => upserts[p] = 0)
    /\ [][/\ Stored \subseteq Stored'
          /\ \A p \in SeqProcs :
                (IsLookupCall(p) \/ IsLookupCall(p)') => index' = index
          /\ index' # index =>
                \E p \in SeqProcs :
                   /\ IsRecordCall(p)
                   /\ pc[p] = "upsert"
                   /\ upserts[p] = 0
                   /\ upserts'[p] = 1
                   /\ \A i \in Ids \ {id[p]} : index'[i] = index[i]]_vars

C19_Witness ==
    \E p \in SeqProcs :
       /\ IsLookupCall(p)
       /\ pc[p] = "returned"
       /\ ret[p] # None
       /\ ret[p] = index[match[p].id]
       /\ Cardinality(Stored) = 2

\* C20: an add_record call whose rank is below 8 has returned without
\* any collaborator call and without an exception, also in a wrapper whose
\* embedder and index are missing.
C20_FloorBeforeCollaborators ==
    \A p \in Procs :
       (IsRecordCall(p) /\ args[p].new_rank < MinRank) =>
          /\ log[p] = <<>>
          /\ pc[p] = "returned"
          /\ error[p] = "None"

C20_Witness ==
    \E p \in Procs :
       /\ ~enabled
       /\ IsRecordCall(p)
       /\ args[p].new_rank < MinRank
       /\ pc[p] = "returned"

====
